---- MODULE Spec2Model ----
(***************************************************************************)
(* Model of upload_apk.py: main() parses the command line, warns when the  *)
(* credential variables are missing, and calls upload_to_s3(), which       *)
(* checks the file, builds the S3 client and issues one upload_file call,  *)
(* mapping the exceptions of that call to printed messages and a boolean.  *)
(*                                                                         *)
(* Strings that the program handles as data (paths, bucket names, keys,    *)
(* exception messages) are sequences of one-character strings.  Python's   *)
(* None is the empty tuple and a present value v is the one-tuple <<v>>.   *)
(* The file system and the storage client are the environment: the file    *)
(* may be created or removed between any two steps, and the client may     *)
(* answer a call with success or with any exception of its taxonomy.       *)
(***************************************************************************)
EXTENDS Naturals, Sequences, FiniteSets

VARIABLES
    environ,      \* os.environ restricted to the two credential variables
    fs,           \* the set of paths that are regular files right now
    args,         \* the argparse namespace: bucket, filepath, key
    pc,           \* the statement the process is about to execute
    file_path,    \* upload_to_s3 parameter
    bucket_name,  \* upload_to_s3 parameter
    object_name,  \* upload_to_s3 parameter / local
    s3_client,    \* TRUE once boto3.client('s3') has returned
    exc,          \* the exception in flight, if any
    ret,          \* the value upload_to_s3 returned, if it returned
    success,      \* main's local
    exitCode,     \* the process exit status, once the process has ended
    out,          \* the lines printed so far
    calls,        \* the upload_file requests the client has received
    raised,       \* every exception the client has raised
    checked       \* what os.path.isfile answered at line 17, once asked

vars == <<environ, fs, args, pc, file_path, bucket_name, object_name,
          s3_client, exc, ret, success, exitCode, out, calls, raised, checked>>

----------------------------------------------------------------------------
(* Bounds and input domains *)

MaxPathLen == 3

PathChars == {"a", "b", "/"}

None == <<>>

Some(v) == <<v>>

Val(o) == o[1]

RECURSIVE SeqsUpTo(_, _)
SeqsUpTo(S, n) ==
    IF n = 0 THEN {<<>>}
    ELSE LET R == SeqsUpTo(S, n - 1)
         IN  R \cup {Append(s, c) : s \in {r \in R : Len(r) = n - 1}, c \in S}

Paths == SeqsUpTo(PathChars, MaxPathLen)

Buckets == {<<"m", "y">>, <<"B">>}

Keys == {None, Some(<<>>), Some(<<"k">>), Some(<<"r", "/", "k">>)}

EnvNames == {"AWS_ACCESS_KEY_ID", "AWS_SECRET_ACCESS_KEY"}

EnvValues == {None, Some(<<>>), Some(<<"s">>)}

(* A path a POSIX file system can hold a regular file at: not empty and   *)
(* not ending in a separator.                                              *)
FileShaped(p) == Len(p) > 0 /\ p[Len(p)] # "/"

----------------------------------------------------------------------------
(* Pure helpers *)

Max(S) == CHOOSE m \in S : \A x \in S : x <= m

(* str.rfind, as the 1-based position of the last occurrence, 0 if none *)
rfind(p, c) ==
    LET at == {i \in 1..Len(p) : p[i] = c}
    IN  IF at = {} THEN 0 ELSE Max(at)

(* basename with the first separator taken instead of the last *)
basename_find(p) ==
    LET at == {i \in 1..Len(p) : p[i] = "/"}
    IN  SubSeq(p, (IF at = {} THEN 0 ELSE CHOOSE m \in at : \A x \in at : m <= x) + 1, Len(p))

(* os.path.basename (posixpath): i = p.rfind('/') + 1; return p[i:] *)
basename(p) == SubSeq(p, rfind(p, "/") + 1, Len(p))

(* os.path.isfile *)
isfile(p) == p \in fs

(* Python truthiness of os.environ.get(name): unset and "" are falsy *)
Truthy(o) == o # None /\ Len(Val(o)) > 0

(* A printed line: the function that printed it, the literal words of the  *)
(* format string ("{}" marks an interpolation) and the interpolated values *)
Line(fn, fmt, vals) == [fn |-> fn, fmt |-> fmt, vals |-> vals]

(* print(): one more line on standard output *)
print(lines) == out' = out \o lines

----------------------------------------------------------------------------
(* The storage collaborator's exceptions *)

Exc(type, msg) == [type |-> type, msg |-> msg]

(* What the service reports when it rejects a request *)
ServiceDetails == {<<"4", "0", "3">>, <<"4", "0", "4">>}

(* upload_file can fail with any of these *)
UploadErrors ==
    {Exc("FileNotFoundError", <<"f">>), Exc("NoCredentialsError", <<"c">>),
     Exc("S3UploadFailedError", <<"u">>)}
    \cup {Exc("ClientError", d) : d \in ServiceDetails}

(* boto3.client can fail while it resolves ambient credentials and         *)
(* configuration, e.g. only one of the two credential variables is set     *)
ClientErrors == {Exc("PartialCredentialsError", <<"p">>)}

(* The classes an exception is an instance of *)
Classes(type) ==
    CASE type = "FileNotFoundError" -> {"FileNotFoundError", "OSError", "Exception"}
      [] type = "NoCredentialsError" -> {"NoCredentialsError", "BotoCoreError", "Exception"}
      [] type = "PartialCredentialsError" -> {"PartialCredentialsError", "BotoCoreError", "Exception"}
      [] type = "ClientError" -> {"ClientError", "Exception"}
      [] type = "S3UploadFailedError" -> {"S3UploadFailedError", "Boto3Error", "Exception"}

(* The except clauses of upload_to_s3, in source order *)
ExceptClauses == <<"FileNotFoundError", "NoCredentialsError", "ClientError", "Exception">>

(* The clause that catches e: the first one e is an instance of *)
Handler(e) ==
    LET hit == {i \in 1..Len(ExceptClauses) : ExceptClauses[i] \in Classes(e.type)}
    IN  ExceptClauses[CHOOSE i \in hit : \A j \in hit : i <= j]

(* str(e) *)
str(e) == e.msg

----------------------------------------------------------------------------
Init ==
    /\ environ \in [EnvNames -> EnvValues]
    /\ args \in [bucket : Buckets, filepath : Paths, key : Keys]
    /\ fs \in {S \in SUBSET {args.filepath} : \A p \in S : FileShaped(p)}
    /\ pc = "check_env"
    /\ file_path = None
    /\ bucket_name = None
    /\ object_name = None
    /\ s3_client = FALSE
    /\ exc = None
    /\ ret = None
    /\ success = None
    /\ exitCode = None
    /\ out = <<>>
    /\ calls = <<>>
    /\ raised = <<>>
    /\ checked = None

----------------------------------------------------------------------------
(* main *)

(* the pre-flight check made fatal: exit(1) when a variable is missing *)
CheckEnv_Fatal ==
    /\ pc = "check_env"
    /\ IF ~Truthy(environ["AWS_ACCESS_KEY_ID"]) \/ ~Truthy(environ["AWS_SECRET_ACCESS_KEY"])
       THEN /\ print(<<Line("main", <<"Warning:", "AWS_ACCESS_KEY_ID", "or",
                                       "AWS_SECRET_ACCESS_KEY", "not", "explicitly",
                                       "set", "in", "environment.">>, <<>>)>>)
            /\ exitCode' = Some(1)
            /\ pc' = "exited"
       ELSE /\ pc' = "call"
            /\ UNCHANGED <<out, exitCode>>
    /\ UNCHANGED <<environ, fs, args, file_path, bucket_name, object_name,
                   s3_client, exc, ret, success, calls, raised, checked>>

(* lines 71-73: the pre-flight credential-presence warning *)
CheckEnv ==
    /\ pc = "check_env"
    /\ IF ~Truthy(environ["AWS_ACCESS_KEY_ID"]) \/ ~Truthy(environ["AWS_SECRET_ACCESS_KEY"])
       THEN print(<<Line("main", <<"Warning:", "AWS_ACCESS_KEY_ID", "or",
                                    "AWS_SECRET_ACCESS_KEY", "not", "explicitly",
                                    "set", "in", "environment.">>, <<>>),
                    Line("main", <<"Attempting", "to", "proceed", "using", "other",
                                    "credential", "methods", "(config", "files,",
                                    "IAM", "roles)...">>, <<>>)>>)
       ELSE UNCHANGED out
    /\ pc' = "call"
    /\ UNCHANGED <<environ, fs, args, file_path, bucket_name, object_name,
                   s3_client, exc, ret, success, exitCode, calls, raised, checked>>

(* line 75: the call upload_to_s3(args.filepath, args.bucket, args.key) *)
CallUpload ==
    /\ pc = "call"
    /\ file_path' = Some(args.filepath)
    /\ bucket_name' = Some(args.bucket)
    /\ object_name' = args.key
    /\ pc' = "default_key"
    /\ UNCHANGED <<environ, fs, args, s3_client, exc, ret, success, exitCode,
                   out, calls, raised, checked>>

(* line 75: success = <the returned value> *)
AssignSuccess ==
    /\ pc = "returned"
    /\ success' = ret
    /\ pc' = "main_if"
    /\ UNCHANGED <<environ, fs, args, file_path, bucket_name, object_name,
                   s3_client, exc, ret, exitCode, out, calls, raised, checked>>

(* main without the sys.exit(1): the status is 0 whatever the result *)
ExitOnResult_NoExit ==
    /\ pc = "main_if"
    /\ exitCode' = Some(0)
    /\ pc' = "exited"
    /\ UNCHANGED <<environ, fs, args, file_path, bucket_name, object_name,
                   s3_client, exc, ret, success, out, calls, raised, checked>>

(* lines 77-81: sys.exit(1) when not success, else main returns and the    *)
(* interpreter ends with status 0                                          *)
ExitOnResult ==
    /\ pc = "main_if"
    /\ exitCode' = IF ~Val(success) THEN Some(1) ELSE Some(0)
    /\ pc' = "exited"
    /\ UNCHANGED <<environ, fs, args, file_path, bucket_name, object_name,
                   s3_client, exc, ret, success, out, calls, raised, checked>>

(* lines 75, 81: an exception that leaves upload_to_s3 is caught nowhere:  *)
(* the interpreter prints the traceback and ends with status 1             *)
Uncaught ==
    /\ pc = "unwind"
    /\ exitCode' = Some(1)
    /\ pc' = "exited"
    /\ UNCHANGED <<environ, fs, args, file_path, bucket_name, object_name,
                   s3_client, exc, ret, success, out, calls, raised, checked>>

----------------------------------------------------------------------------
(* upload_to_s3 *)

Return(v) == ret' = Some(v) /\ pc' = "returned"

(* lines 13-14: if object_name is None: object_name = basename(file_path) *)
DefaultObjectName ==
    /\ pc = "default_key"
    /\ object_name' = IF object_name = None
                      THEN Some(basename(Val(file_path)))
                      ELSE object_name
    /\ pc' = "isfile"
    /\ UNCHANGED <<environ, fs, args, file_path, bucket_name, s3_client, exc,
                   ret, success, exitCode, out, calls, raised, checked>>

(* the existence check without its return: the error is printed and the  *)
(* upload goes ahead                                                      *)
CheckIsFile_NoReturn ==
    /\ pc = "isfile"
    /\ checked' = Some(isfile(Val(file_path)))
    /\ IF ~isfile(Val(file_path))
       THEN print(<<Line("upload_to_s3", <<"Error:", "File", "not", "found",
                                            "at", "'{}'">>, <<Val(file_path)>>)>>)
       ELSE UNCHANGED out
    /\ pc' = "client"
    /\ UNCHANGED <<environ, fs, args, file_path, bucket_name, object_name,
                   s3_client, exc, ret, success, exitCode, calls, raised>>

(* lines 17-19: the existence check *)
CheckIsFile ==
    /\ pc = "isfile"
    /\ checked' = Some(isfile(Val(file_path)))
    /\ IF ~isfile(Val(file_path))
       THEN /\ print(<<Line("upload_to_s3", <<"Error:", "File", "not", "found",
                                               "at", "'{}'">>, <<Val(file_path)>>)>>)
            /\ Return(FALSE)
       ELSE /\ pc' = "client"
            /\ UNCHANGED <<out, ret>>
    /\ UNCHANGED <<environ, fs, args, file_path, bucket_name, object_name,
                   s3_client, exc, success, exitCode, calls, raised>>

(* line 24: s3_client = boto3.client('s3'), outside the try statement: an  *)
(* exception raised here leaves upload_to_s3                               *)
CreateClient ==
    /\ pc = "client"
    /\ \/ /\ s3_client' = TRUE
          /\ pc' = "try"
          /\ UNCHANGED <<exc, raised>>
       \/ \E e \in ClientErrors :
             /\ exc' = Some(e)
             /\ raised' = Append(raised, e)
             /\ pc' = "unwind"
             /\ UNCHANGED s3_client
    /\ UNCHANGED <<environ, fs, args, file_path, bucket_name, object_name,
                   ret, success, exitCode, out, calls, checked>>

(* line 27 *)
PrintStarting ==
    /\ pc = "try"
    /\ print(<<Line("upload_to_s3", <<"Starting", "upload", "of", "'{}'", "to",
                                       "bucket", "'{}'...">>,
                    <<Val(file_path), Val(bucket_name)>>)>>)
    /\ pc' = "upload"
    /\ UNCHANGED <<environ, fs, args, file_path, bucket_name, object_name,
                   s3_client, exc, ret, success, exitCode, calls, raised, checked>>

(* lines 32-34 *)
extra_args == [ContentType |-> "application/vnd.android.package-archive"]

(* the call without ExtraArgs: the service's default content type applies *)
UploadRequest_NoExtraArgs(fp, bn, on) ==
    [Filename |-> fp, Bucket |-> bn, Key |-> on,
     ExtraArgs |-> [ContentType |-> "binary/octet-stream"]]

(* lines 36-41: the arguments of s3_client.upload_file *)
UploadRequest(fp, bn, on) ==
    [Filename |-> fp, Bucket |-> bn, Key |-> on, ExtraArgs |-> extra_args]

(* lines 36-41: the one call of the storage client.  The client records    *)
(* the request and whether the file was there when the call was made; it   *)
(* completes the transfer only if it was, and may fail in any way.         *)
UploadFile ==
    /\ pc = "upload"
    /\ s3_client
    /\ calls' = Append(calls, [request |-> UploadRequest(Val(file_path), Val(bucket_name),
                                                         Val(object_name)),
                               present |-> isfile(Val(file_path))])
    /\ \/ /\ isfile(Val(file_path))
          /\ pc' = "uploaded"
          /\ UNCHANGED <<exc, raised>>
       \/ \E e \in UploadErrors :
             /\ exc' = Some(e)
             /\ raised' = Append(raised, e)
             /\ pc' = "except"
    /\ UNCHANGED <<environ, fs, args, file_path, bucket_name, object_name,
                   s3_client, ret, success, exitCode, out, checked>>

(* lines 43-44 *)
PrintSuccess ==
    /\ pc = "uploaded"
    /\ print(<<Line("upload_to_s3", <<"Success!", "'{}'", "uploaded", "to", "'{}'.">>,
                    <<Val(object_name), Val(bucket_name)>>)>>)
    /\ Return(TRUE)
    /\ UNCHANGED <<environ, fs, args, file_path, bucket_name, object_name,
                   s3_client, exc, success, exitCode, calls, raised, checked>>

(* the vanished file swallowed: the handler reports success *)
ExceptFileNotFoundError_True ==
    /\ pc = "except"
    /\ Handler(Val(exc)) = "FileNotFoundError"
    /\ exc' = None
    /\ Return(TRUE)
    /\ UNCHANGED <<environ, fs, args, file_path, bucket_name, object_name,
                   s3_client, success, exitCode, out, calls, raised, checked>>

(* lines 46-48 *)
ExceptFileNotFoundError ==
    /\ pc = "except"
    /\ Handler(Val(exc)) = "FileNotFoundError"
    /\ print(<<Line("upload_to_s3", <<"Error:", "The", "file", "was", "not", "found.">>,
                    <<>>)>>)
    /\ exc' = None
    /\ Return(FALSE)
    /\ UNCHANGED <<environ, fs, args, file_path, bucket_name, object_name,
                   s3_client, success, exitCode, calls, raised, checked>>

(* the handler without its second line, the one naming the variables *)
ExceptNoCredentialsError_OneLine ==
    /\ pc = "except"
    /\ Handler(Val(exc)) = "NoCredentialsError"
    /\ print(<<Line("upload_to_s3", <<"Error:", "AWS", "credentials", "not", "found.">>,
                    <<>>)>>)
    /\ exc' = None
    /\ Return(FALSE)
    /\ UNCHANGED <<environ, fs, args, file_path, bucket_name, object_name,
                   s3_client, success, exitCode, calls, raised, checked>>

(* lines 49-52 *)
ExceptNoCredentialsError ==
    /\ pc = "except"
    /\ Handler(Val(exc)) = "NoCredentialsError"
    /\ print(<<Line("upload_to_s3", <<"Error:", "AWS", "credentials", "not", "found.">>,
                    <<>>),
               Line("upload_to_s3", <<"Please", "ensure", "AWS_ACCESS_KEY_ID", "and",
                                       "AWS_SECRET_ACCESS_KEY", "environment",
                                       "variables", "are", "set.">>, <<>>)>>)
    /\ exc' = None
    /\ Return(FALSE)
    /\ UNCHANGED <<environ, fs, args, file_path, bucket_name, object_name,
                   s3_client, success, exitCode, calls, raised, checked>>

(* the handler printing a fixed message instead of the exception *)
ExceptClientError_NoDetail ==
    /\ pc = "except"
    /\ Handler(Val(exc)) = "ClientError"
    /\ print(<<Line("upload_to_s3", <<"AWS", "Error">>, <<>>)>>)
    /\ exc' = None
    /\ Return(FALSE)
    /\ UNCHANGED <<environ, fs, args, file_path, bucket_name, object_name,
                   s3_client, success, exitCode, calls, raised, checked>>

(* lines 53-56 *)
ExceptClientError ==
    /\ pc = "except"
    /\ Handler(Val(exc)) = "ClientError"
    /\ print(<<Line("upload_to_s3", <<"AWS", "Error:", "{}">>, <<str(Val(exc))>>)>>)
    /\ exc' = None
    /\ Return(FALSE)
    /\ UNCHANGED <<environ, fs, args, file_path, bucket_name, object_name,
                   s3_client, success, exitCode, calls, raised, checked>>

(* the catch-all retrying the upload once instead of giving up *)
ExceptException_Retry ==
    /\ pc = "except"
    /\ Handler(Val(exc)) = "Exception"
    /\ print(<<Line("upload_to_s3", <<"Unexpected", "error:", "{}">>, <<str(Val(exc))>>)>>)
    /\ exc' = None
    /\ IF Len(calls) < 2
       THEN pc' = "upload" /\ UNCHANGED ret
       ELSE Return(FALSE)
    /\ UNCHANGED <<environ, fs, args, file_path, bucket_name, object_name,
                   s3_client, success, exitCode, calls, raised, checked>>

(* lines 57-59 *)
ExceptException ==
    /\ pc = "except"
    /\ Handler(Val(exc)) = "Exception"
    /\ print(<<Line("upload_to_s3", <<"Unexpected", "error:", "{}">>, <<str(Val(exc))>>)>>)
    /\ exc' = None
    /\ Return(FALSE)
    /\ UNCHANGED <<environ, fs, args, file_path, bucket_name, object_name,
                   s3_client, success, exitCode, calls, raised, checked>>

----------------------------------------------------------------------------
(* The environment: other processes create and remove the file while the   *)
(* script runs                                                             *)

EnvDelete ==
    /\ pc # "exited"
    /\ \E p \in fs : fs' = fs \ {p}
    /\ UNCHANGED <<environ, args, pc, file_path, bucket_name, object_name,
                   s3_client, exc, ret, success, exitCode, out, calls, raised, checked>>

EnvCreate ==
    /\ pc # "exited"
    /\ args.filepath \notin fs
    /\ FileShaped(args.filepath)
    /\ fs' = fs \cup {args.filepath}
    /\ UNCHANGED <<environ, args, pc, file_path, bucket_name, object_name,
                   s3_client, exc, ret, success, exitCode, out, calls, raised, checked>>

----------------------------------------------------------------------------
Next ==
    \/ CheckEnv
    \/ CallUpload
    \/ DefaultObjectName
    \/ CheckIsFile
    \/ CreateClient
    \/ PrintStarting
    \/ UploadFile
    \/ PrintSuccess
    \/ ExceptFileNotFoundError
    \/ ExceptNoCredentialsError
    \/ ExceptClientError
    \/ ExceptException
    \/ AssignSuccess
    \/ ExitOnResult
    \/ Uncaught
    \/ EnvDelete
    \/ EnvCreate

Spec == Init /\ [][Next]_vars

----------------------------------------------------------------------------
(* Properties *)

Range(q) == {q[i] : i \in DOMAIN q}

(* upload_to_s3 has returned to main *)
Returned == pc \in {"returned", "main_if", "exited"} /\ ret # None

(* the client raised an exception of this type *)
Raised(type) == \E i \in DOMAIN raised : raised[i].type = type

(* the lines upload_to_s3 printed *)
UploadLines == {l \in Range(out) : l.fn = "upload_to_s3"}

(* k is the final segment of p: it holds no separator and p is k, or        *)
(* something ending in a separator followed by k                            *)
IsFinalSegment(k, p) ==
    /\ "/" \notin Range(k)
    /\ Len(k) <= Len(p)
    /\ SubSeq(p, Len(p) - Len(k) + 1, Len(p)) = k
    /\ Len(k) < Len(p) => p[Len(p) - Len(k)] = "/"

(* C1: when os.path.isfile answered false at the check, upload_to_s3 has   *)
(* returned False, no exception is in flight, and the client has received  *)
(* no upload_file call, whatever happens to the file afterwards.           *)
C1_MissingFileNoUpload ==
    checked = Some(FALSE) => (Returned /\ ret = Some(FALSE) /\ exc = None /\ calls = <<>>)

(* the file was missing at the check, appeared afterwards, and the process *)
(* has ended                                                               *)
C1_Witness ==
    checked = Some(FALSE) /\ pc = "exited" /\ args.filepath \in fs /\ calls = <<>>

(* C2: when the process has ended, its status is 0 exactly when            *)
(* upload_to_s3 returned True and 1 otherwise; every failure (file missing *)
(* at the check, any exception raised by the client) ends in 1 and a       *)
(* completed transfer ends in 0.                                           *)
C2_ExitCode ==
    pc = "exited" =>
        /\ exitCode \in {Some(0), Some(1)}
        /\ (exitCode = Some(0)) <=> (ret = Some(TRUE))
        /\ (checked = Some(FALSE) \/ raised # <<>>) => exitCode = Some(1)
        /\ (calls # <<>> /\ raised = <<>>) => exitCode = Some(0)

(* the service rejected the upload and the process ended with status 1 *)
C2_Witness ==
    pc = "exited" /\ Raised("ClientError") /\ exitCode = Some(1) /\ ret = Some(FALSE)

(* C3: every upload request carries as key the --key value when one was    *)
(* given (the empty string included) and the final path segment of the     *)
(* file path when none was given.                                          *)
C3_KeyResolution ==
    \A i \in DOMAIN calls :
        IF args.key # None
        THEN calls[i].request.Key = Val(args.key)
        ELSE IsFinalSegment(calls[i].request.Key, args.filepath)

(* a request was issued for a path with two separators and no --key *)
C3_Witness ==
    /\ calls # <<>>
    /\ args.key = None
    /\ Cardinality({i \in DOMAIN args.filepath : args.filepath[i] = "/"}) = 2
    /\ Len(calls[1].request.Key) = 1

(* C4: no exception raised by the storage collaborator leaves              *)
(* upload_to_s3: whenever the client has raised, the function ends by      *)
(* returning False.                                                        *)
C4_NoPropagation ==
    /\ pc # "unwind"
    /\ (pc = "exited" /\ raised # <<>>) => ret = Some(FALSE)

(* C5: the client never receives more than one upload_file call, and once  *)
(* a failure has happened (file missing at the check, or an exception      *)
(* raised) no further call is made.                                        *)
C5_SingleAttempt ==
    /\ [](Len(calls) <= 1)
    /\ [][(checked = Some(FALSE) \/ raised # <<>>) => calls' = calls]_vars

(* one call was made, it failed, and the process ended *)
C5_Witness ==
    Len(calls) = 1 /\ raised # <<>> /\ pc = "exited" /\ ret = Some(FALSE)

(* C6: once upload_file has raised NoCredentialsError and the exception    *)
(* has been handled, upload_to_s3 has returned False and the lines it      *)
(* printed name both credential variables.                                 *)
C6_NoCredentials ==
    (Raised("NoCredentialsError") /\ pc # "except") =>
        /\ Returned /\ ret = Some(FALSE)
        /\ \A v \in EnvNames : \E l \in UploadLines : v \in Range(l.fmt)

(* NoCredentialsError was raised although both variables were set, so main *)
(* printed no warning                                                      *)
C6_Witness ==
    /\ Raised("NoCredentialsError")
    /\ pc = "exited"
    /\ \A v \in EnvNames : Truthy(environ[v])
    /\ ret = Some(FALSE)

(* C7: once upload_file has raised ClientError and the exception has been  *)
(* handled, upload_to_s3 has returned False and a line it printed carries  *)
(* the detail the service gave.                                            *)
C7_ServiceRejected ==
    \A i \in DOMAIN raised :
        (raised[i].type = "ClientError" /\ pc # "except") =>
            /\ Returned /\ ret = Some(FALSE)
            /\ \E l \in UploadLines : raised[i].msg \in Range(l.vals)

(* the service rejected the request and upload_to_s3 returned *)
C7_Witness ==
    /\ Raised("ClientError")
    /\ pc = "returned"
    /\ ret = Some(FALSE)

(* C8: when the file passed the check but was gone when upload_file was    *)
(* called, upload_to_s3 never returns True; once it has returned it        *)
(* returned False and the last line printed is a diagnostic.               *)
C8_VanishedFile ==
    (checked = Some(TRUE) /\ calls # <<>> /\ ~calls[1].present) =>
        /\ ret # Some(TRUE)
        /\ pc # "uploaded"
        /\ Returned =>
              /\ ret = Some(FALSE)
              /\ out # <<>>
              /\ out[Len(out)].fn = "upload_to_s3"
              /\ out[Len(out)].fmt[1] \notin {"Starting", "Success!"}

(* the file passed the check, was deleted, the call raised                 *)
(* FileNotFoundError and upload_to_s3 returned                             *)
C8_Witness ==
    /\ checked = Some(TRUE)
    /\ calls # <<>>
    /\ ~calls[1].present
    /\ Raised("FileNotFoundError")
    /\ pc = "returned"
    /\ ret = Some(FALSE)

(* C9: the step that checks the credential variables always leads to the   *)
(* call of upload_to_s3 and leaves the exit status and the parsed          *)
(* arguments alone; the call receives the parsed arguments.                *)
C9_WarningOnly ==
    /\ [][(pc = "check_env" /\ pc' # pc) =>
              (pc' = "call" /\ exitCode' = exitCode /\ args' = args)]_vars
    /\ [](pc = "default_key" =>
              /\ file_path = Some(args.filepath)
              /\ bucket_name = Some(args.bucket)
              /\ object_name = args.key)

(* neither variable is set, the warning was printed and upload_to_s3 was   *)
(* entered                                                                 *)
C9_Witness ==
    /\ pc = "default_key"
    /\ \A v \in EnvNames : environ[v] = None
    /\ Len(out) = 2
    /\ exitCode = None

(* C10: every upload request carries the file path and the bucket given on *)
(* the command line and the content type of an Android package.            *)
C10_RequestShape ==
    \A i \in DOMAIN calls :
        /\ calls[i].request.Filename = args.filepath
        /\ calls[i].request.Bucket = args.bucket
        /\ calls[i].request.ExtraArgs.ContentType = "application/vnd.android.package-archive"

(* a request was issued with a key given on the command line *)
C10_Witness ==
    /\ calls # <<>>
    /\ args.key = Some(<<"r", "/", "k">>)
    /\ calls[1].request.Key = <<"r", "/", "k">>

====
